---- MODULE Spec2Model ----
(***************************************************************************)
(* Transport-log PWA: the IndexedDB stores of db.ts (logs, pending), the   *)
(* outbox synchroniser of main.ts (sendPendingIfOnline / postLog), the     *)
(* handlers that write and delete logs, the remote sheet of Code.gs, and   *)
(* the session handlers of main.ts (startSession, toggleBreak, toggleRest, *)
(* endSession) with the position fixes they await.                         *)
(*                                                                         *)
(* JavaScript runs one task at a time: a handler runs until it awaits I/O  *)
(* and resumes when the I/O completes.  Each action below is one such run  *)
(* from one await to the next, continuations of resolved promises included.*)
(***************************************************************************)
EXTENDS Integers, Sequences, FiniteSets, Bags, TLC

\* ---------------------------------------------------------------- bounds
\* number of LogRecords saved in one run of the application
MaxLogs == 3
\* number of sendPendingIfOnline invocations that may be in flight together
MaxPasses == 2
\* number of history rows the user deletes in one run
MaxDeletes == 1
\* number of rows the remote sheet accepts before it refuses further posts:
\* every log once, and one row more
MaxRows == MaxLogs + 1

\* number of driving sessions started in one run
MaxSessions == 2
\* number of handlers that may await a position fix together
MaxAwaiting == 2
\* number of break and rest intervals of one session, taken together
MaxIntervals == 2
\* number of session records that endSession saves in one run
MaxEnds == 2
\* last reading of the clock
MaxTime == 2
\* number of distinct places the position source reports
MaxPlace == 1
\* number of distinct positions the geolocation watch reports
MaxPosition == 3
\* number of track points of one session that location updates extend
MaxTrack == 3
\* number of fuel events of one session
MaxFuel == 2
\* clock readings to a minute
TicksPerMinute == 2

LogIds == 1..MaxLogs
Passes == 1..MaxPasses

\* ------------------------------------------------------------------ state
VARIABLES
  started,      \* init() has run
  online,       \* navigator.onLine
  appConfig,    \* which keys config.json provided
  logs,         \* object store 'logs', in key order
  pending,      \* object store 'pending', in key order
  logsKey,      \* key generator of store 'logs'
  pendingKey,   \* key generator of store 'pending'
  pc,           \* per sendPendingIfOnline invocation: the await it is at
  snap,         \* per invocation: its local array `pending`
  idx,          \* per invocation: position of the for-loop in snap
  owner,        \* per invocation: the handler awaiting it
  parser,       \* the parserButton.onclick handler
  sheet,        \* rows of the remote spreadsheet, in append order
  now,          \* Date.now()
  currentSession, \* the SessionState, or NoSession for null
  watches,      \* ids of the geolocation watches not yet cleared
  nextWatchId,  \* the id the next watchPosition call returns
  timers,       \* number of setInterval timers running
  fixQueue,     \* bag of handlers awaiting getCurrentPositionOrPrompt
  ending,       \* bag of endSession handlers awaiting their saveLog
  lastUpdate,   \* history: the coordinate last handed to handleLocationUpdate
  lastReturn,   \* history: the handler call that last returned at once
  lastResponse, \* history: what the last observed post came back with
  lastPass      \* history: how the most recently finished pass ended

vars == <<started, online, appConfig, logs, pending, logsKey, pendingKey,
          pc, snap, idx, owner, parser, sheet, lastPass,
          now, currentSession, watches, nextWatchId, timers, fixQueue, ending,
          lastUpdate, lastReturn, lastResponse>>

storeVars == <<logs, pending, logsKey, pendingKey>>
passVars == <<pc, snap, idx, owner>>
\* what the handlers of the active-session view read and write
sessionVars == <<now, watches, nextWatchId, timers, fixQueue, ending,
                 lastUpdate,
                 lastReturn, lastResponse>>
\* the history variables
history == <<lastUpdate, lastReturn, lastResponse>>

\* null, undefined: a session, a time or a coordinate that is not there
None == -1
NoResponse == [fetch |-> "none", ok |-> "absent"]
NoSession == [watchId |-> 0, startTime |-> None, startCoord |-> None,
              coords |-> << >>, distance |-> 0, breaks |-> << >>,
              rests |-> << >>, fuelLogs |-> << >>]

\* what the position source reports; a fix of None is a failed lookup whose
\* prompt for manual coordinates was cancelled (the promise rejects)
Places == 1..MaxPlace
Fixes == Places \cup {None}

\* ------------------------------------------------------ IndexedDB (db.ts)
\* createObjectStore(name, { keyPath: 'id', autoIncrement: true }): a store
\* is the sequence of its records in key order, each holding its key in id.
\* The value handed to add() carries no id, so the store's own key
\* generator numbers it; the caller's object is cloned, not changed.
StoreAdd(store, key, rec) == Append(store, [id |-> key] @@ rec)

StoreDelete(store, id) == SelectSeq(store, LAMBDA e : e.id # id)

StoreClear(store) == << >>

StoreGetAll(store) == store

StoreLogs(store) == {store[i].log : i \in 1..Len(store)}

StoreKeys(store) == {store[i].id : i \in 1..Len(store)}

\* (mutant) saveLog ignores its pending argument
saveLogPending_Never(flag) == FALSE

\* saveLog(record, pending): if (pending) { ...STORE_PENDING.add(record) }
saveLogPending(flag) == flag


\* The record is told apart by log, the number of the save that wrote it
\* (the key it gets in 'logs'); its field session names the session it was
\* made from.
saveLog(record, flag) ==
  /\ logs' = StoreAdd(logs, logsKey, [log |-> logsKey] @@ record)
  /\ logsKey' = logsKey + 1
  /\ IF saveLogPending(flag)
       THEN /\ pending' = StoreAdd(pending, pendingKey,
                                  [log |-> logsKey] @@ record)
            /\ pendingKey' = pendingKey + 1
       ELSE UNCHANGED <<pending, pendingKey>>

\* the record the remote sheet would hold for canonical log l
Posted(l) == \E i \in 1..Len(sheet) : sheet[i] = l

TimesPosted(l) == Cardinality({i \in 1..Len(sheet) : sheet[i] = l})

TypeOK ==
  /\ started \in BOOLEAN /\ online \in BOOLEAN
  /\ logsKey \in 1..(MaxLogs + 1) /\ pendingKey \in 1..(MaxLogs + 1)
  /\ Len(sheet) <= MaxRows

Init ==
  /\ started = FALSE
  /\ online \in BOOLEAN
  /\ appConfig = [SHEETS_WEBAPP_URL |-> FALSE, OPENAI_API_KEY |-> FALSE]
  /\ logs = << >> /\ pending = << >>
  /\ logsKey = 1 /\ pendingKey = 1
  /\ pc = [p \in Passes |-> "idle"]
  /\ snap = [p \in Passes |-> << >>]
  /\ idx = [p \in Passes |-> 0]
  /\ owner = [p \in Passes |-> "none"]
  /\ parser = [pc |-> "idle", pending |-> FALSE, parsed |-> << >>]
  /\ sheet = << >>
  /\ lastPass = [outcome |-> "none", calls |-> 0]
  /\ now = 0
  /\ currentSession = NoSession
  /\ watches = {}
  /\ nextWatchId = 1
  /\ timers = 0
  /\ fixQueue = EmptyBag
  /\ ending = EmptyBag
  /\ lastUpdate = [coord |-> None, flip |-> FALSE]
  /\ lastReturn = [op |-> "none", input |-> ""]
  /\ lastResponse = NoResponse

\* ------------------------------------------------- remote sheet (Code.gs)
\* doPost: a parsable body is appended as one row and answered { ok: true }.
doPost(rows, l) == Append(rows, l)

\* the fields that only tell the model's records apart and are no part of
\* the stored object
ModelTags == {"log", "session"}

\* body: JSON.stringify(record), for a record as getPendingLogs returned it:
\* the stored object, its key in the field id of the key path included
WireBody(entry) == [f \in (DOMAIN entry) \ ModelTags |-> entry[f]]

\* JSON values that the field ok of a response body can have, as their
\* text; "absent" for a body without the field
OkValues == {"true", "false", "absent", "0", "1"}

\* the values that ! turns into true
Falsy == {"false", "absent", "0"}

\* what a post can come back with: fetch rejects, or resolves with a
\* response of a status in 200..299 (res.ok) or not, whose body has some ok
Responses ==
  {[fetch |-> "rejected", ok |-> "absent"]}
    \cup [fetch : {"success", "error"}, ok : OkValues]

\* postLog returns for a success status whose body has a truthy ok; it
\* throws on a rejected fetch, on !res.ok and on !body || !body.ok.
postLogResolves(resp) == resp.fetch = "success" /\ resp.ok \notin Falsy

\* ------------------------------------------ sendPendingIfOnline (main.ts)
IsIdle(p) == pc[p] = "idle"

FirstIdle(p) == IsIdle(p) /\ \A q \in Passes : IsIdle(q) => p <= q

\* (mutant) sendPendingIfOnline always returns at its guards
PassRuns_Never(on, cfg) == FALSE

\* (mutant) sendPendingIfOnline lacks its two guards
PassRuns_Always(on, cfg) == TRUE

\* the two guards before the first await
PassRuns(on, cfg) == on /\ cfg.SHEETS_WEBAPP_URL

\* the continuation of the handler `who` once the pass it awaits returns
\* (parserButton: the finally block; endSession: currentSession = null)
Resume(who) ==
  /\ parser' = IF who = "parser"
                 THEN [pc |-> "idle", pending |-> FALSE, parsed |-> << >>]
                 ELSE parser
  /\ currentSession' = IF who = "endSession" THEN NoSession ELSE currentSession

\* the handler `who` while it awaits the pass it called
Suspend(who) ==
  /\ parser' = IF who = "parser"
                 THEN [pc |-> "sendPendingIfOnline", pending |-> FALSE,
                       parsed |-> << >>]
                 ELSE parser
  /\ currentSession' = currentSession

\* A call of sendPendingIfOnline by handler `who`, with navigator.onLine = on
\* and appConfig = cfg at the call.  Either it returns at once and the
\* caller goes on, or it is left awaiting getPendingLogs.
sendPendingIfOnline(who, on, cfg) ==
  IF PassRuns(on, cfg)
    THEN /\ \E p \in Passes :
              /\ FirstIdle(p)
              /\ pc' = [pc EXCEPT ![p] = "getPendingLogs"]
              /\ owner' = [owner EXCEPT ![p] = who]
         /\ Suspend(who)
         /\ UNCHANGED <<snap, idx, lastPass>>
    ELSE /\ UNCHANGED passVars
         /\ lastPass' = [outcome |-> "skipped", calls |-> 0]
         /\ Resume(who)

\* the pass of slot p returns: its locals die and its caller resumes
Return(p, how, n) ==
  /\ pc' = [pc EXCEPT ![p] = "idle"]
  /\ snap' = [snap EXCEPT ![p] = << >>]
  /\ idx' = [idx EXCEPT ![p] = 0]
  /\ owner' = [owner EXCEPT ![p] = "none"]
  /\ lastPass' = [outcome |-> how, calls |-> n]
  /\ Resume(owner[p])

\* const pending = await getPendingLogs(); if (pending.length === 0) return;
getPendingLogs(p) ==
  /\ pc[p] = "getPendingLogs"
  /\ LET got == StoreGetAll(pending) IN
       IF Len(got) = 0
         THEN Return(p, "empty", 0)
         ELSE /\ pc' = [pc EXCEPT ![p] = "postLog"]
              /\ snap' = [snap EXCEPT ![p] = got]
              /\ idx' = [idx EXCEPT ![p] = 1]
              /\ UNCHANGED <<owner, lastPass, parser, currentSession>>
  /\ UNCHANGED <<started, online, appConfig, storeVars, sheet, sessionVars>>

\* the loop goes on to the next record, or leaves the loop to clear
AfterPostSuccess(p) ==
  /\ IF idx[p] < Len(snap[p])
       THEN /\ pc' = pc
            /\ idx' = [idx EXCEPT ![p] = idx[p] + 1]
       ELSE /\ pc' = [pc EXCEPT ![p] = "clearPendingLogs"]
            /\ idx' = idx
  /\ UNCHANGED <<snap, owner, lastPass, parser, currentSession>>

\* (mutant) the catch block lacks its return: the loop goes on
AfterPostFailure_NoReturn(p) == AfterPostSuccess(p)

\* catch (err) { ...; return; }
AfterPostFailure(p) == Return(p, "failed", idx[p])

\* await postLog(record), for the record the loop is at; seen is what the
\* step leaves in lastResponse
post(p, resp, seen) ==
  /\ pc[p] = "postLog"
  /\ lastResponse' = seen
  /\ IF postLogResolves(resp)
       THEN /\ Len(sheet) < MaxRows
            /\ sheet' = doPost(sheet, snap[p][idx[p]].log)
            /\ AfterPostSuccess(p)
       ELSE /\ sheet' = sheet
            /\ AfterPostFailure(p)
  /\ UNCHANGED <<started, online, appConfig, storeVars, now, watches,
                 nextWatchId, timers, fixQueue, ending, lastUpdate,
                 lastReturn>>

postLog(p, resp) == post(p, resp, lastResponse)

\* (mutant) clearPendingLogs clears both stores
clearedStores_Both == <<StoreClear(logs), StoreClear(pending)>>

\* (mutant) clearPendingLogs opens the wrong store
clearedStores_Logs == <<StoreClear(logs), pending>>

\* clearPendingLogs: tx.objectStore(STORE_PENDING).clear(); <<logs, pending>>
clearedStores == <<logs, StoreClear(pending)>>

\* await clearPendingLogs(), then the pass returns
clearPendingLogs(p) ==
  /\ pc[p] = "clearPendingLogs"
  /\ logs' = clearedStores[1]
  /\ pending' = clearedStores[2]
  /\ Return(p, "cleared", Len(snap[p]))
  /\ UNCHANGED <<started, online, appConfig, logsKey, pendingKey, sheet,
                 sessionVars>>

\* ----------------------------------------------------- handlers (main.ts)
\* init(): appConfig = await loadConfig(); ...; sendPendingIfOnline()
init ==
  /\ ~started
  /\ started' = TRUE
  /\ \E url \in BOOLEAN, key \in BOOLEAN :
       /\ appConfig' = [SHEETS_WEBAPP_URL |-> url, OPENAI_API_KEY |-> key]
       /\ sendPendingIfOnline("none", online, appConfig')
  /\ UNCHANGED <<online, storeVars, sheet, sessionVars>>

\* window 'online' listener: updateOnlineStatus(); sendPendingIfOnline()
onOnline ==
  /\ started /\ ~online
  /\ online' = TRUE
  /\ sendPendingIfOnline("none", TRUE, appConfig)
  /\ UNCHANGED <<started, appConfig, storeVars, sheet, sessionVars>>

\* window 'offline' listener: updateOnlineStatus()
onOffline ==
  /\ started /\ online
  /\ online' = FALSE
  /\ UNCHANGED <<started, appConfig, storeVars, passVars, parser, sheet,
                 lastPass, currentSession, sessionVars>>

\* syncBtn.onclick; the button exists when the rendered history is not empty
syncBtn_onclick ==
  /\ started /\ currentSession = NoSession /\ Len(logs) > 0
  /\ sendPendingIfOnline("none", online, appConfig)
  /\ UNCHANGED <<started, online, appConfig, storeVars, sheet, sessionVars>>

\* deleteLogById(id): delete(id) on both stores in one transaction
deleteLogById(id) ==
  /\ logs' = StoreDelete(logs, id)
  /\ pending' = StoreDelete(pending, id)
  /\ UNCHANGED <<logsKey, pendingKey>>

\* delBtn.onclick of the history row of log.id, once confirmed
delBtn_onclick(id) ==
  /\ started /\ currentSession = NoSession /\ id \in StoreKeys(logs)
  /\ (logsKey - 1) - Len(logs) < MaxDeletes
  /\ deleteLogById(id)
  /\ UNCHANGED <<started, online, appConfig, passVars, parser, sheet, lastPass,
                 currentSession, sessionVars>>

\* parserButton.onclick up to: await parseNaturalLog(...)
parserButton_onclick ==
  /\ started /\ currentSession = NoSession /\ appConfig.OPENAI_API_KEY
  /\ parser.pc = "idle"
  /\ logsKey <= MaxLogs
  /\ parser' = [parser EXCEPT !.pc = "parseNaturalLog"]
  /\ UNCHANGED <<started, online, appConfig, storeVars, passVars, sheet,
                 lastPass, currentSession, sessionVars>>

\* the object that parseNaturalLog returns when the text names nothing: a
\* field that is null or absent is no field here
NothingParsed == << >>

\* objects that parseNaturalLog returns for texts that name some things
ParsedObjects ==
  {NothingParsed,
   [departureName |-> "Sapporo", arrivalName |-> "Obihiro"],
   [departureName |-> "Sapporo", distanceKm |-> 250, fuelLitres |-> 100]}

\* parseNaturalLog returns parsed: the record is built and saveLog(record,
\* !navigator.onLine) is called; or it throws (no API key, a response that
\* is no JSON) and the handler ends.
parseNaturalLog_returns(ok, parsed) ==
  /\ parser.pc = "parseNaturalLog"
  /\ parser' = IF ok THEN [pc |-> "saveLog", pending |-> ~online,
                           parsed |-> parsed]
                     ELSE [pc |-> "idle", pending |-> FALSE,
                           parsed |-> << >>]
  /\ UNCHANGED <<started, online, appConfig, storeVars, passVars, sheet,
                 lastPass, currentSession, sessionVars>>

parseNaturalLog(ok) == parseNaturalLog_returns(ok, NothingParsed)

\* the record that the handler builds from the parsed object, here one
\* whose fields are all null: parsed.x || '' and parsed.x || 0, the
\* coordinates zero.  It belongs to no session.
ParsedRecord ==
  [session |-> 0,
   date |-> 0, departureName |-> "", arrivalName |-> "",
   departureTime |-> "", arrivalTime |-> "",
   drivingMinutes |-> 0, breakMinutes |-> 0, distanceKm |-> 0,
   fuelLitres |-> 0, fuelCost |-> 0,
   departureLat |-> 0, departureLng |-> 0,
   arrivalLat |-> 0, arrivalLng |-> 0,
   note |-> << >>]

\* (mutant) the record is the parsed object as it came
ParserRecord_Raw(parsed) ==
  [f \in {"session"} \cup DOMAIN parsed |->
     IF f = "session" THEN 0 ELSE parsed[f]]

\* the record that the handler builds from a parsed object: parsed.x || ''
\* and parsed.x || 0
ParserRecord(parsed) ==
  [f \in DOMAIN ParsedRecord |->
     IF f \in DOMAIN parsed THEN parsed[f] ELSE ParsedRecord[f]]

\* the saveLog transaction completes; then await sendPendingIfOnline()
parserSaved ==
  /\ parser.pc = "saveLog"
  /\ saveLog(ParserRecord(parser.parsed), parser.pending)
  /\ sendPendingIfOnline("parser", online, appConfig)
  /\ UNCHANGED <<started, online, appConfig, sheet, sessionVars>>

\* ------------------------------------------- the session engine (main.ts)
\* a handler suspended in `await getCurrentPositionOrPrompt()`: what it is,
\* and for a toggle the branch it took and the session whose array it holds
Awaiting(op, closing, sid) == [op |-> op, closing |-> closing, sid |-> sid]

AwaitingOp(op) ==
  {inv \in BagToSet(fixQueue) : inv.op = op}

CountOp(op) ==
  BagCardinality([inv \in AwaitingOp(op) |-> fixQueue[inv]])

Enqueue(inv) ==
  /\ BagCardinality(fixQueue) < MaxAwaiting
  /\ fixQueue' = fixQueue (+) SetToBag({inv})

Dequeue(inv) == fixQueue' = fixQueue (-) SetToBag({inv})

\* Date.now() moves on between two tasks
Tick ==
  /\ now < MaxTime
  /\ now' = now + 1
  /\ UNCHANGED history
  /\ UNCHANGED <<started, online, appConfig, storeVars, passVars, parser,
                 sheet, lastPass, currentSession, watches, nextWatchId, timers,
                 fixQueue, ending>>

\* startSession(): if (currentSession) return;
startSessionGuard == currentSession = NoSession

\* startButton.onclick = () => startSession(), up to the await of the fix.
\* The button belongs to the dashboard, rendered while there is no session.
startSession_call ==
  /\ started /\ currentSession = NoSession
  /\ startSessionGuard
  /\ nextWatchId + CountOp("startSession") <= MaxSessions
  /\ Enqueue(Awaiting("startSession", FALSE, 0))
  /\ UNCHANGED history
  /\ UNCHANGED <<started, online, appConfig, storeVars, passVars, parser,
                 sheet, lastPass, now, currentSession, watches, nextWatchId,
                 timers,
                 ending>>

\* (mutant) the session starts with an empty track
NewSession_NoSeed(c) ==
  [watchId |-> nextWatchId, startTime |-> now, startCoord |-> c,
   coords |-> << >>, distance |-> 0, breaks |-> << >>, rests |-> << >>,
   fuelLogs |-> << >>]

\* the object startSession assigns to currentSession, with the watch id
\* that watchPosition returns stored in it
NewSession(c) ==
  [watchId |-> nextWatchId, startTime |-> now, startCoord |-> c,
   coords |-> <<c>>, distance |-> 0, breaks |-> << >>, rests |-> << >>,
   fuelLogs |-> << >>]

\* startSession resumes with the fix: the session is created and watched;
\* or the promise rejected and the catch block only alerts; seen is what
\* the step leaves in lastReturn
startSession_resume(fix, seen) ==
  /\ \E inv \in AwaitingOp("startSession") : Dequeue(inv)
  /\ IF fix # None
       THEN /\ currentSession' = NewSession(fix)
            /\ watches' = watches \cup {nextWatchId}
            /\ nextWatchId' = nextWatchId + 1
            /\ timers' = timers + 1
       ELSE UNCHANGED <<currentSession, watches, nextWatchId, timers>>
  /\ lastReturn' = seen
  /\ UNCHANGED <<lastUpdate, lastResponse>>
  /\ UNCHANGED <<started, online, appConfig, storeVars, passVars, parser,
                 sheet, lastPass, now, ending>>

startSession_fix(fix) == startSession_resume(fix, lastReturn)

\* the same with the alert of the catch block on record
startSession_observed(fix) ==
  startSession_resume(fix, IF fix = None
                             THEN [op |-> "startSession", input |-> "no fix"]
                             ELSE lastReturn)

\* (mutant) the handlers lack their first line
noSession_Never(session) == FALSE

\* if (!currentSession) return;
noSession(session) == session = NoSession

\* a handler returns before it did anything
ReturnsAtOnce(op, input) == lastReturn' = [op |-> op, input |-> input]

\* clock ticks of a day
TicksPerDay == 4

\* if (delta * 1000 >= 50): the threshold against GPS jitter, in metres
JitterThresholdMetres == 50

\* Coordinates are points of one meridian, StepMetres apart, numbered from
\* the equator: 0 is { lat: 0, lng: 0 }.  Distances are kept in metres.
StepMetres == JitterThresholdMetres \div 2

\* what the geolocation watch reports
Positions == 1..MaxPosition

\* haversineDistance(a, b): the great-circle distance of two points, which
\* on one meridian is the length of the arc between their latitudes
haversineDistance(a, b) ==
  LET dLat == b - a IN StepMetres * (IF dLat < 0 THEN -dLat ELSE dLat)

\* (mutant) the threshold test is strict
AcceptsUpdate_Strict(delta) == delta > JitterThresholdMetres

\* if (delta * 1000 >= 50)
AcceptsUpdate(delta) == delta >= JitterThresholdMetres

\* (mutant) the new point is put in front of the track
Tracked_Prepend(session, coord, delta) ==
  [session EXCEPT !.distance = @ + delta, !.coords = <<coord>> \o @]

\* currentSession.distance += delta; currentSession.coords.push(coord)
Tracked(session, coord, delta) ==
  [session EXCEPT !.distance = @ + delta, !.coords = Append(@, coord)]

\* the watch callback: handleLocationUpdate(coord), for a watch that was
\* not cleared
handleLocationUpdate(coord) ==
  /\ started /\ watches # {}
  /\ lastUpdate' = [coord |-> coord, flip |-> ~lastUpdate.flip]
  /\ IF noSession(currentSession)
       THEN currentSession' = currentSession
       ELSE LET coords == currentSession.coords
                last == coords[Len(coords)]
                delta == haversineDistance(last, coord)
            IN /\ Len(coords) < MaxTrack
               /\ currentSession' =
                    IF AcceptsUpdate(delta)
                      THEN Tracked(currentSession, coord, delta)
                      ELSE currentSession
  /\ UNCHANGED <<started, online, appConfig, storeVars, passVars, parser,
                 sheet, lastPass, now, watches, nextWatchId, timers,
                 fixQueue, ending,
                 lastReturn, lastResponse>>

\* (mutant) the toggle never sees an open interval
LastIsOpen_Never(list) == FALSE

\* breaks.length > 0 && breaks[breaks.length - 1].end === undefined
LastIsOpen(list) == Len(list) > 0 /\ list[Len(list)].end = None

Intervals(session, kind) ==
  IF kind = "toggleBreak" THEN session.breaks ELSE session.rests

\* (mutant) opening or closing a rest closes the breaks for good
WithIntervals_Exclusive(session, kind, list) ==
  IF kind = "toggleBreak" THEN [session EXCEPT !.breaks = list]
                          ELSE [session EXCEPT !.rests = list,
                                               !.breaks = << >>]

WithIntervals(session, kind, list) ==
  IF kind = "toggleBreak" THEN [session EXCEPT !.breaks = list]
                          ELSE [session EXCEPT !.rests = list]

\* toggleBreak / toggleRest up to the await of the fix: the branch is
\* chosen on the list as it is now, and the list is held by reference
toggle(kind) ==
  /\ started
  /\ IF noSession(currentSession)
       THEN /\ ReturnsAtOnce(kind, "idle")
            /\ UNCHANGED fixQueue
       ELSE LET list == Intervals(currentSession, kind)
                closing == LastIsOpen(list)
                opening == {inv \in BagToSet(fixQueue) :
                              /\ inv.op \in {"toggleBreak", "toggleRest"}
                              /\ ~inv.closing
                              /\ inv.sid = currentSession.watchId}
            IN /\ closing
                  \/ Len(currentSession.breaks) + Len(currentSession.rests)
                      + BagCardinality([inv \in opening |-> fixQueue[inv]])
                        < MaxIntervals
               /\ Enqueue(Awaiting(kind, closing, currentSession.watchId))
               /\ UNCHANGED lastReturn
  /\ UNCHANGED <<lastUpdate, lastResponse>>
  /\ UNCHANGED <<started, online, appConfig, storeVars, passVars, parser,
                 sheet, lastPass, now, currentSession, watches, nextWatchId,
                 timers,
                 ending>>

\* breakBtn / restBtn pressed; the buttons belong to the active-session
\* view, rendered while there is a session
toggle_call(kind) == currentSession # NoSession /\ toggle(kind)

\* breaks[breaks.length - 1].end = Date.now(), with endLat/endLng on a fix
Closed(list, fix) ==
  [list EXCEPT ![Len(list)] =
     [@ EXCEPT !.end = now,
               !.endCoord = IF fix # None THEN fix ELSE @]]

\* (mutant) the catch block of the opening branch is empty
Opened_NeedsFix(list, fix) ==
  IF fix = None THEN list
  ELSE Append(list, [start |-> now, end |-> None,
                     startCoord |-> fix, endCoord |-> None])

\* breaks.push({ start: Date.now(), startLat, startLng }), or without them
Opened(list, fix) ==
  Append(list, [start |-> now, end |-> None,
                startCoord |-> fix, endCoord |-> None])

\* the toggle resumes with or without a fix and writes to the list it
\* holds; that list is the current session's only if the session object is
\* still the one the handler was called on
toggle_fix(kind, fix) ==
  /\ \E inv \in AwaitingOp(kind) :
       /\ Dequeue(inv)
       /\ IF currentSession.watchId = inv.sid /\ currentSession # NoSession
            THEN LET list == Intervals(currentSession, kind) IN
                 currentSession' = WithIntervals(currentSession, kind,
                     IF inv.closing THEN Closed(list, fix)
                                    ELSE Opened(list, fix))
            ELSE currentSession' = currentSession
  /\ UNCHANGED history
  /\ UNCHANGED <<started, online, appConfig, storeVars, passVars, parser,
                 sheet, lastPass, now, watches, nextWatchId, timers, ending>>

\* a number as parseFloat returns it: NaN, or a value
NaN == [nan |-> TRUE, val |-> 0]

Num(v) == [nan |-> FALSE, val |-> v]

isNaN(x) == x.nan

\* what the user types into the prompts of addFuel ("" also stands for a
\* cancelled prompt, which returns null)
AmountStrs == {"", "abc", "-5", "0", "10"}

CostStrs == {"", "abc", "-1", "3000"}

\* parseFloat(str), on the strings above
parseFloat(str) ==
  CASE str = "" -> NaN
    [] str = "abc" -> NaN
    [] str = "-5" -> Num(-5)
    [] str = "-1" -> Num(-1)
    [] str = "0" -> Num(0)
    [] str = "10" -> Num(10)
    [] str = "3000" -> Num(3000)

\* (mutant) only a missing amount is refused
addFuelRefuses_EmptyOnly(amountStr) == amountStr = ""

\* if (!amountStr) return; ... if (isNaN(amount) || amount <= 0) return;
addFuelRefuses(amountStr) ==
  \/ amountStr = ""
  \/ LET amount == parseFloat(amountStr) IN isNaN(amount) \/ amount.val <= 0

\* let cost = 0; if (costStr) { c = parseFloat(costStr);
\*                              if (!isNaN(c) && c > 0) cost = c; }
addFuelCost(costStr) ==
  IF costStr # ""
    THEN LET c == parseFloat(costStr) IN
         IF ~isNaN(c) /\ c.val > 0 THEN c.val ELSE 0
    ELSE 0

\* addFuel suspended in `await getCurrentPositionOrPrompt()`, with the
\* strings it read from its two prompts; sid tells which session was the
\* current one at the call, which the handler itself does not keep
AwaitingFuel(amountStr, costStr) ==
  [op |-> "addFuel", closing |-> FALSE, sid |-> currentSession.watchId,
   amountStr |-> amountStr, costStr |-> costStr]

\* fuelBtn.onclick = addFuel, up to the await of the fix
addFuel(amountStr, costStr) ==
  /\ started
  /\ IF noSession(currentSession)
       THEN /\ ReturnsAtOnce("addFuel", "idle")
            /\ UNCHANGED fixQueue
       ELSE IF addFuelRefuses(amountStr)
         THEN /\ ReturnsAtOnce("addFuel", amountStr)
              /\ UNCHANGED fixQueue
         ELSE /\ Len(currentSession.fuelLogs) + CountOp("addFuel") < MaxFuel
              /\ Enqueue(AwaitingFuel(amountStr, costStr))
              /\ UNCHANGED lastReturn
  /\ UNCHANGED <<started, online, appConfig, storeVars, passVars, parser,
                 sheet, lastPass, now, currentSession, watches, nextWatchId,
                 timers,
                 ending, lastUpdate, lastResponse>>

\* fuelBtn pressed in the active-session view
addFuel_call(amountStr, costStr) ==
  currentSession # NoSession /\ addFuel(amountStr, costStr)

\* addFuel resumes: currentSession!.fuelLogs.push({ time, amount, cost, lat,
\* lng }), with lat, lng zero when there is no fix.  With currentSession
\* null by then the push throws, in the try block and again in the catch
\* block, and the handler ends.
addFuel_fix(fix) ==
  /\ \E inv \in AwaitingOp("addFuel") :
       /\ Dequeue(inv)
       /\ IF currentSession # NoSession
            THEN currentSession' =
                   [currentSession EXCEPT !.fuelLogs = Append(@,
                      [time |-> now,
                       amount |-> parseFloat(inv.amountStr).val,
                       cost |-> addFuelCost(inv.costStr),
                       coord |-> IF fix # None THEN fix ELSE 0])]
            ELSE currentSession' = currentSession
  /\ UNCHANGED history
  /\ UNCHANGED <<started, online, appConfig, storeVars, passVars, parser,
                 sheet, lastPass, now, watches, nextWatchId, timers, ending>>

RECURSIVE Sum(_)
\* reduce((sum, x) => sum + x, 0)
Sum(seq) == IF seq = << >> THEN 0 ELSE Head(seq) + Sum(Tail(seq))

\* (mutant) only the closed intervals count
totalMs_ClosedOnly(list) ==
  Sum([i \in 1..Len(list) |->
         IF list[i].end = None THEN 0 ELSE list[i].end - list[i].start])

\* totalBreakMs / totalRestMs: an open interval counts up to Date.now()
totalMs(list) ==
  Sum([i \in 1..Len(list) |->
         (IF list[i].end = None THEN now ELSE list[i].end) - list[i].start])

\* Math.floor(ms / 60000), with the clock counting TicksPerMinute to a minute
Minutes(ticks) == ticks \div TicksPerMinute

\* the segments that endSession adds to the note for the intervals of a kind
IntervalNotes(kind, list) ==
  [i \in 1..Len(list) |->
     [kind |-> kind, idx |-> i, start |-> list[i].start, end |-> list[i].end,
      startCoord |-> list[i].startCoord, endCoord |-> list[i].endCoord]]

\* the segment for each fuel stop: time, place, amount and cost
FuelNotes(fuelLogs) ==
  [i \in 1..Len(fuelLogs) |->
     [kind |-> "fuel", idx |-> i, time |-> fuelLogs[i].time,
      coord |-> fuelLogs[i].coord, amount |-> fuelLogs[i].amount,
      cost |-> fuelLogs[i].cost]]

\* what the user types into the prompt for a remark ("" also stands for a
\* cancelled prompt)
UserNotes == {""}

\* what a user who has something to remark may type
TypedNotes == {"", "  ", " memo "}

\* userNote.trim(), on the strings above
trim(str) ==
  CASE str = "" -> ""
    [] str = "  " -> ""
    [] str = " memo " -> "memo"

\* (mutant) the remark is taken as typed
Note_Untrimmed(session, userNote) ==
  (IF userNote # "" THEN <<[kind |-> "user", text |-> userNote]>> ELSE << >>)
  \o (IF Minutes(totalMs(session.rests)) > 0
        THEN <<[kind |-> "restTotal",
                minutes |-> Minutes(totalMs(session.rests))]>>
        ELSE << >>)
  \o IntervalNotes("break", session.breaks)
  \o IntervalNotes("rest", session.rests)
  \o FuelNotes(session.fuelLogs)

\* record.note = [record.note, ...notes].filter(Boolean).join(' | '), kept
\* as the sequence of its segments
Note(session, userNote) ==
  (IF trim(userNote) # ""
     THEN <<[kind |-> "user", text |-> trim(userNote)]>> ELSE << >>)
  \o (IF Minutes(totalMs(session.rests)) > 0
        THEN <<[kind |-> "restTotal",
                minutes |-> Minutes(totalMs(session.rests))]>>
        ELSE << >>)
  \o IntervalNotes("break", session.breaks)
  \o IntervalNotes("rest", session.rests)
  \o FuelNotes(session.fuelLogs)

\* (mutant) the record takes its fuel figures from the first fuel stop
FuelTotal_First(fuelLogs, field) ==
  IF fuelLogs = << >> THEN 0 ELSE fuelLogs[1][field]

\* fuelLogs.reduce((sum, f) => sum + f.amount, 0), and likewise for cost
FuelTotal(fuelLogs, field) ==
  Sum([i \in 1..Len(fuelLogs) |-> fuelLogs[i][field]])

\* new Date(t).toISOString().split('T')[0]: the day that clock reading t
\* falls on
Day(t) == t \div TicksPerDay

\* `https://www.google.com/maps?q=${lat},${lng}`
MapsUrl(lat, lng) == [maps |-> <<lat, lng>>]

\* the LogRecord that endSession builds from the session; distances are
\* whole metres, which toFixed(3) on kilometres keeps; a coordinate of the
\* model's meridian is its latitude, the longitude being 0
LogRecord(session, endCoord, userNote) ==
  [session |-> session.watchId,
   date |-> Day(session.startTime),
   departureName |-> MapsUrl(session.startCoord, 0),
   arrivalName |-> MapsUrl(endCoord, 0),
   departureTime |-> session.startTime,
   arrivalTime |-> now,
   drivingMinutes |-> Minutes(now - session.startTime
                              - totalMs(session.breaks)
                              - totalMs(session.rests)),
   breakMinutes |-> Minutes(totalMs(session.breaks)),
   distanceKm |-> session.distance,
   fuelLitres |-> FuelTotal(session.fuelLogs, "amount"),
   fuelCost |-> FuelTotal(session.fuelLogs, "cost"),
   departureLat |-> session.startCoord,
   departureLng |-> 0,
   arrivalLat |-> endCoord,
   arrivalLng |-> 0,
   note |-> Note(session, userNote)]

\* endButton.onclick = endSession, up to the await of the final fix:
\* if (currentSession.watchId !== undefined) clearWatch(...)
endSession ==
  /\ started
  /\ IF noSession(currentSession)
       THEN /\ ReturnsAtOnce("endSession", "idle")
            /\ UNCHANGED <<watches, fixQueue>>
       ELSE /\ logsKey + CountOp("endSession") + BagCardinality(ending)
                 <= MaxEnds
            /\ watches' = watches \ {currentSession.watchId}
            /\ Enqueue(Awaiting("endSession", FALSE, 0))
            /\ UNCHANGED lastReturn
  /\ UNCHANGED <<lastUpdate, lastResponse>>
  /\ UNCHANGED <<started, online, appConfig, storeVars, passVars, parser,
                 sheet, lastPass, now, currentSession, nextWatchId, timers,
                 ending>>

\* endButton pressed in the active-session view
endSession_call == currentSession # NoSession /\ endSession

\* endSession resumes: currentSession.coords.push(endCoord), the record is
\* built from currentSession and saveLog(record, !navigator.onLine) is
\* called.  With currentSession null by then the push throws and the
\* handler ends.
endSession_resume(fix, typed) ==
  /\ \E inv \in AwaitingOp("endSession") : Dequeue(inv)
  /\ IF currentSession # NoSession
       THEN LET endCoord == IF fix # None THEN fix ELSE 0 IN
            /\ currentSession' =
                 [currentSession EXCEPT !.coords = Append(@, endCoord)]
            /\ \E userNote \in typed :
                 ending' = ending (+) SetToBag({
                   [record |-> LogRecord(currentSession, endCoord, userNote),
                    userNote |-> userNote,
                    pending |-> ~online]})
       ELSE UNCHANGED <<currentSession, ending>>
  /\ UNCHANGED history
  /\ UNCHANGED <<started, online, appConfig, storeVars, passVars, parser,
                 sheet, lastPass, now, watches, nextWatchId, timers>>

\* endSession resumes and the user leaves the prompt for a remark empty
endSession_fix(fix) == endSession_resume(fix, UserNotes)

\* endSession resumes and the user types a remark, or none
endSession_noted(fix) == endSession_resume(fix, TypedNotes)

\* the saveLog transaction completes; then await sendPendingIfOnline();
\* currentSession = null follows when that call returns
endSession_saved ==
  /\ \E inv \in BagToSet(ending) :
       /\ ending' = ending (-) SetToBag({inv})
       /\ saveLog(inv.record, inv.pending)
  /\ sendPendingIfOnline("endSession", online, appConfig)
  /\ UNCHANGED history
  /\ UNCHANGED <<started, online, appConfig, sheet, now, watches,
                 nextWatchId, timers, fixQueue>>

\* ---------------------------------------------------------- specification
Next ==
  \/ init
  \/ onOnline
  \/ onOffline
  \/ syncBtn_onclick
  \/ \E id \in LogIds : delBtn_onclick(id)
  \/ parserButton_onclick
  \/ \E ok \in BOOLEAN : parseNaturalLog(ok)
  \/ parserSaved
  \/ \E p \in Passes : getPendingLogs(p)
  \/ \E p \in Passes, resp \in Responses : postLog(p, resp)
  \/ \E p \in Passes : clearPendingLogs(p)

Spec == Init /\ [][Next]_vars

\* the synchroniser with each post's response on record
postLog_observed(p, resp) == post(p, resp, resp)

PostNext ==
  \/ init
  \/ onOnline
  \/ onOffline
  \/ parserButton_onclick
  \/ \E ok \in BOOLEAN : parseNaturalLog(ok)
  \/ parserSaved
  \/ \E p \in Passes : getPendingLogs(p)
  \/ \E p \in Passes, resp \in Responses : postLog_observed(p, resp)
  \/ \E p \in Passes : clearPendingLogs(p)

PostSpec == Init /\ [][PostNext]_vars

\* the life of a session, from the start button to the saved record, with
\* the synchroniser that endSession calls
SessionNext ==
  \/ init
  \/ onOnline
  \/ onOffline
  \/ startSession_call
  \/ \E fix \in Fixes : startSession_fix(fix)
  \/ endSession_call
  \/ \E fix \in Fixes : endSession_fix(fix)
  \/ endSession_saved
  \/ \E p \in Passes : getPendingLogs(p)
  \/ \E p \in Passes, resp \in Responses : postLog(p, resp)
  \/ \E p \in Passes : clearPendingLogs(p)

SessionSpec == Init /\ [][SessionNext]_vars

\* the break and rest buttons of the active-session view, while time passes
ToggleNext ==
  \/ init
  \/ Tick
  \/ startSession_call
  \/ \E fix \in Fixes : startSession_fix(fix)
  \/ \E kind \in {"toggleBreak", "toggleRest"} : toggle_call(kind)
  \/ \E kind \in {"toggleBreak", "toggleRest"}, fix \in Fixes :
       toggle_fix(kind, fix)

ToggleSpec == Init /\ [][ToggleNext]_vars

\* a break or rest button pressed while no handler awaits a fix: every call
\* runs to completion before the next one
toggle_alone(kind) == fixQueue = EmptyBag /\ toggle_call(kind)

SeqToggleNext ==
  \/ init
  \/ Tick
  \/ startSession_call
  \/ \E fix \in Fixes : startSession_fix(fix)
  \/ \E kind \in {"toggleBreak", "toggleRest"} : toggle_alone(kind)
  \/ \E kind \in {"toggleBreak", "toggleRest"}, fix \in Fixes :
       toggle_fix(kind, fix)

SeqToggleSpec == Init /\ [][SeqToggleNext]_vars

\* a session under location updates, from the start button to the saved
\* record
TrackNext ==
  \/ init
  \/ startSession_call
  \/ \E fix \in Fixes : startSession_fix(fix)
  \/ \E coord \in Positions : handleLocationUpdate(coord)
  \/ endSession_call
  \/ \E fix \in Fixes : endSession_fix(fix)
  \/ endSession_saved
  \/ \E p \in Passes : getPendingLogs(p)

TrackSpec == Init /\ [][TrackNext]_vars

\* the fuel button of the active-session view, with whatever the user types
FuelNext ==
  \/ init
  \/ startSession_call
  \/ \E fix \in Fixes : startSession_fix(fix)
  \/ \E amountStr \in AmountStrs, costStr \in CostStrs :
       addFuel_call(amountStr, costStr)
  \/ \E fix \in Fixes : addFuel_fix(fix)

FuelSpec == Init /\ [][FuelNext]_vars

\* the start button pressed while the history is still empty
startSession_first == logsKey = 1 /\ startSession_call

\* a session with fuel stops of 10 litres, with or without a cost, from the
\* start button to the saved record
RecordNext ==
  \/ init
  \/ startSession_first
  \/ \E fix \in Fixes : startSession_fix(fix)
  \/ \E costStr \in {"", "3000"} : addFuel_call("10", costStr)
  \/ \E fix \in Fixes : addFuel_fix(fix)
  \/ endSession_call
  \/ \E fix \in Fixes : endSession_fix(fix)
  \/ endSession_saved
  \/ \E p \in Passes : getPendingLogs(p)

RecordSpec == Init /\ [][RecordNext]_vars

\* toggleBreak, toggleRest and addFuel invoked while there is no session
toggle_idle(kind) == currentSession = NoSession /\ toggle(kind)

addFuel_idle == currentSession = NoSession /\ addFuel("10", "")

\* one session from start to saved record, its watch reporting positions,
\* and the handlers of the session engine invoked whether or not there is a
\* session
IdleNext ==
  \/ init
  \/ startSession_first
  \/ \E fix \in Fixes : startSession_fix(fix)
  \/ \E coord \in Positions : handleLocationUpdate(coord)
  \/ \E kind \in {"toggleBreak", "toggleRest"} : toggle_idle(kind)
  \/ addFuel_idle
  \/ endSession
  \/ \E fix \in Fixes : endSession_fix(fix)
  \/ endSession_saved
  \/ \E p \in Passes : getPendingLogs(p)

IdleSpec == Init /\ [][IdleNext]_vars

\* no handler of the active-session view is under way
Settled ==
  fixQueue = EmptyBag /\ ending = EmptyBag /\ \A p \in Passes : IsIdle(p)

\* the buttons of the active-session view pressed one at a time, each after
\* the handler of the one before has finished
toggle_settled(kind) == Settled /\ toggle_call(kind)

addFuel_settled == Settled /\ addFuel_call("10", "")

endSession_settled == Settled /\ endSession_call

\* a session from the start button to the saved record, with breaks, rests
\* and fuel stops, the position source failing at will; the driver presses
\* one button at a time
FixNext ==
  \/ init
  \/ startSession_first
  \/ \E fix \in Fixes : startSession_fix(fix)
  \/ \E kind \in {"toggleBreak", "toggleRest"} : toggle_settled(kind)
  \/ \E kind \in {"toggleBreak", "toggleRest"}, fix \in Fixes :
       toggle_fix(kind, fix)
  \/ addFuel_settled
  \/ \E fix \in Fixes : addFuel_fix(fix)
  \/ endSession_settled
  \/ \E fix \in Fixes : endSession_fix(fix)
  \/ endSession_saved
  \/ \E p \in Passes : getPendingLogs(p)

FixSpec == Init /\ [][FixNext]_vars

\* no endSession handler is under way
NotEnding ==
  /\ AwaitingOp("endSession") = {} /\ ending = EmptyBag
  /\ \A p \in Passes : IsIdle(p)

\* the break and rest buttons pressed at any time before the end button
toggle_driving(kind) == NotEnding /\ toggle_call(kind)

\* a session from the start button to the saved record, with breaks and
\* rests, while time passes and the position source answers
ClockNext ==
  \/ init
  \/ Tick
  \/ startSession_first
  \/ \E fix \in Places : startSession_fix(fix)
  \/ \E kind \in {"toggleBreak", "toggleRest"} : toggle_driving(kind)
  \/ \E kind \in {"toggleBreak", "toggleRest"}, fix \in Places :
       toggle_fix(kind, fix)
  \/ endSession_settled
  \/ \E fix \in Places : endSession_fix(fix)
  \/ endSession_saved
  \/ \E p \in Passes : getPendingLogs(p)

ClockSpec == Init /\ [][ClockNext]_vars

\* a session from the start button to the saved record, with breaks, rests
\* and fuel stops, while time passes, closed with or without a remark; the
\* driver presses one button at a time and the position source answers
NoteNext ==
  \/ init
  \/ Tick
  \/ startSession_first
  \/ \E fix \in Places : startSession_fix(fix)
  \/ \E kind \in {"toggleBreak", "toggleRest"} : toggle_settled(kind)
  \/ \E kind \in {"toggleBreak", "toggleRest"}, fix \in Places :
       toggle_fix(kind, fix)
  \/ addFuel_settled
  \/ \E fix \in Places : addFuel_fix(fix)
  \/ endSession_settled
  \/ \E fix \in Places : endSession_noted(fix)
  \/ endSession_saved
  \/ \E p \in Passes : getPendingLogs(p)

NoteSpec == Init /\ [][NoteNext]_vars

\* sessions started and ended, the position source failing at will
StartNext ==
  \/ init
  \/ Tick
  \/ startSession_call
  \/ \E fix \in Fixes : startSession_observed(fix)
  \/ endSession_call
  \/ \E fix \in Fixes : endSession_fix(fix)
  \/ endSession_saved
  \/ \E p \in Passes : getPendingLogs(p)

StartSpec == Init /\ [][StartNext]_vars

\* sessions started and ended while fuel stops are being recorded
RefuelNext ==
  \/ init
  \/ startSession_call
  \/ \E fix \in Places : startSession_fix(fix)
  \/ addFuel_call("10", "")
  \/ \E fix \in Places : addFuel_fix(fix)
  \/ endSession_call
  \/ \E fix \in Places : endSession_fix(fix)
  \/ endSession_saved
  \/ \E p \in Passes : getPendingLogs(p)

RefuelSpec == Init /\ [][RefuelNext]_vars

\* the natural-language parser with texts of several kinds, up to the
\* passes that its saves start
ParseNext ==
  \/ init
  \/ onOnline
  \/ onOffline
  \/ parserButton_onclick
  \/ \E ok \in BOOLEAN, parsed \in ParsedObjects :
       parseNaturalLog_returns(ok, parsed)
  \/ parserSaved
  \/ \E p \in Passes : getPendingLogs(p)

ParseSpec == Init /\ [][ParseNext]_vars

\* ----------------------------------------------------------------- claims
\* steps of the pass under way in slot p, read off the variables of two states
PassStep(p) == pc[p] # "idle" /\ <<pc[p], idx[p]>> # <<pc'[p], idx'[p]>>

\* the post the pass awaited came back without a row added to the sheet
FailingPost(p) == pc[p] = "postLog" /\ PassStep(p) /\ sheet' = sheet

\* the post of the last record of the snapshot came back acknowledged
LastPostAcked(p) ==
  pc[p] = "postLog" /\ PassStep(p) /\ sheet' # sheet /\ idx[p] = Len(snap[p])

ClearStep(p) == pc[p] = "clearPendingLogs" /\ PassStep(p)

ReadStep(p) == pc[p] = "getPendingLogs" /\ PassStep(p)

Quiescent == parser.pc = "idle" /\ \A p \in Passes : pc[p] = "idle"

\* C1: a failing post ends its pass at once: the pass returns in that very
\* step having called postLog only up to the failing record, and no step of
\* a pass other than its final clear changes the outbox, so the failing
\* pass leaves every queued record, posted or not, in place and in order.
C1_FailureStopsPass ==
  [][\A p \in Passes :
       /\ FailingPost(p) =>
            /\ pc'[p] = "idle"
            /\ lastPass' = [outcome |-> "failed", calls |-> idx[p]]
            /\ pending' = pending
       /\ (PassStep(p) /\ ~ClearStep(p)) => pending' = pending]_vars

\* C1 witness: of three queued records the second post failed
C1_Witness ==
  /\ lastPass = [outcome |-> "failed", calls |-> 2]
  /\ Len(pending) = 3
  /\ sheet = <<pending[1].log>>
  /\ \A p \in Passes : pc[p] = "idle"

\* C2: no LogRecord is acknowledged by the remote sink more than once.
C2_AtMostOnce == \A l \in LogIds : TimesPosted(l) <= 1

\* C3: when a pass clears the outbox, every entry it removes has been
\* posted successfully (nothing written during the pass is lost).
C3_NothingLostByClear ==
  [][\A p \in Passes :
       ClearStep(p) =>
         \A l \in StoreLogs(pending) \ StoreLogs(pending') : Posted(l)]_vars

\* C4: the outbox holds no entry for a log the user has deleted.
C4_DeletedLogNotQueued == StoreLogs(pending) \subseteq StoreLogs(logs)

\* C5: an outbox entry leaves the outbox only in the clear of a pass or
\* together with its own log: a delete removes no other log's entry, and a
\* failing pass removes none.
C5_EntryRemovedOnlyWithOwnLog ==
  [][\A l \in StoreLogs(pending) \ StoreLogs(pending') :
       \/ \E p \in Passes : ClearStep(p)
       \/ l \in StoreLogs(logs) \ StoreLogs(logs')]_vars

\* C6: a pass whose every post is acknowledged goes on to clear, the clear
\* empties the outbox and leaves the canonical store as it is, and the
\* outbox is cleared only by a pass that has had every record it read
\* acknowledged.
C6_ClearIffAllPosted ==
  [][\A p \in Passes :
       /\ LastPostAcked(p) => pc'[p] = "clearPendingLogs"
       /\ ClearStep(p) =>
            /\ pending' = << >>
            /\ logs' = logs
            /\ idx[p] = Len(snap[p])
            /\ \A i \in 1..Len(snap[p]) : Posted(snap[p][i].log)
       /\ (PassStep(p) /\ Len(pending) > 0 /\ pending' = << >>) => ClearStep(p)
       /\ PassStep(p) => logs' = logs]_vars

\* C6 witness: a pass has posted all three queued records and cleared
C6_Witness ==
  /\ lastPass = [outcome |-> "cleared", calls |-> 3]
  /\ pending = << >>
  /\ Len(logs) = 3
  /\ sheet = <<1, 2, 3>>

\* C7: (as a final result) with an endpoint configured, once nothing is
\* queued and no handler or pass is under way, every record persisted
\* locally has been posted: what is not posted by then never will be.
C7_PersistedIsPosted ==
  (appConfig.SHEETS_WEBAPP_URL /\ Quiescent /\ pending = << >>)
    => \A l \in StoreLogs(logs) : Posted(l)

\* C8: a record saved while offline is put in the outbox; a pass reads the
\* whole outbox, so it reads that record, and when all its posts succeed
\* its clear leaves none of the records it read in the outbox.
C8_OfflineSaveThenSync ==
  [][/\ (parser.pc = "parseNaturalLog" /\ parser'.pc = "saveLog")
          => parser'.pending = ~online
     /\ (parser.pc = "saveLog" /\ parser'.pc # "saveLog" /\ parser.pending)
          => logsKey \in StoreLogs(pending')
     /\ \A p \in Passes :
          /\ ReadStep(p) /\ pc'[p] = "postLog" => snap'[p] = pending
          /\ ClearStep(p) =>
               \A i \in 1..Len(snap[p]) : snap[p][i] \notin
                    {pending'[j] : j \in 1..Len(pending')}]_vars

\* C8 witness: a record was saved offline and, once online, one pass
\* posted it and cleared the outbox
C8_Witness ==
  /\ online
  /\ lastPass = [outcome |-> "cleared", calls |-> 1]
  /\ pendingKey = 2
  /\ pending = << >>
  /\ sheet = <<1>>

\* the intervals of a list that have no end
OpenIntervals(list) == {i \in 1..Len(list) : list[i].end = None}

\* C9: At most one session exists at a time: no startSession invocation,
\* one issued while an earlier one still awaits its first fix included, ever
\* replaces an existing session or opens a second location subscription.
C9_StartNeverReplaces ==
  [][/\ Cardinality(watches') <= 1
     /\ (currentSession # NoSession /\ currentSession' # NoSession)
          => currentSession'.watchId = currentSession.watchId]_vars

\* C10: In every reachable state at most one break interval and at most one
\* rest interval of the session has no end, also when two toggles of one
\* kind overlap while each awaits its fix.
C10_AtMostOneOpen ==
  /\ Cardinality(OpenIntervals(currentSession.breaks)) <= 1
  /\ Cardinality(OpenIntervals(currentSession.rests)) <= 1

\* only the last interval of a list may be open, and a closed one does not
\* end before it starts
Alternating(list) ==
  /\ OpenIntervals(list) \subseteq {Len(list)}
  /\ \A i \in 1..Len(list) : list[i].end # None => list[i].start <= list[i].end

\* a step in which a toggle of the running session completed
ToggleDone(kind) ==
  /\ currentSession'.watchId = currentSession.watchId
  /\ Intervals(currentSession', kind) # Intervals(currentSession, kind)

\* C11: With every toggle run to completion before the next, the intervals
\* of a kind are closed ones followed by at most one open one: a toggle
\* closes the open interval if there is one and opens a new one otherwise,
\* so n calls leave floor(n/2) closed intervals and an open one iff n is odd.
C11_TogglesAlternate ==
  [][\A kind \in {"toggleBreak", "toggleRest"} :
       LET old == Intervals(currentSession, kind)
           new == Intervals(currentSession', kind)
       IN /\ Alternating(new)
          /\ ToggleDone(kind) =>
               IF Len(old) > 0 /\ old[Len(old)].end = None
                 THEN /\ Len(new) = Len(old)
                      /\ OpenIntervals(new) = {}
                      /\ SubSeq(new, 1, Len(old) - 1)
                           = SubSeq(old, 1, Len(old) - 1)
                 ELSE /\ Len(new) = Len(old) + 1
                      /\ OpenIntervals(new) = {Len(new)}
                      /\ SubSeq(new, 1, Len(old)) = old]_vars

\* C11 witness: three toggleBreak calls in a row left one closed break, which
\* took time, and one open break
C11_Witness ==
  /\ fixQueue = EmptyBag
  /\ Len(currentSession.breaks) = 2
  /\ currentSession.breaks[1].end > currentSession.breaks[1].start
  /\ currentSession.breaks[2].end = None
  /\ currentSession.rests = << >>

\* a step in which the session stays the same object
SameSession ==
  /\ currentSession # NoSession
  /\ currentSession'.watchId = currentSession.watchId

\* C12: For an active session, an update less than 50 m from the last
\* accepted track point leaves distance and track unchanged; one at least
\* 50 m away (inclusive) appends exactly that coordinate and adds exactly
\* its distance from the last accepted point.
C12_JitterThreshold ==
  [][(lastUpdate' # lastUpdate /\ currentSession # NoSession) =>
       LET coords == currentSession.coords
           coord == lastUpdate'.coord
           metres == StepMetres * (IF coord < coords[Len(coords)]
                                     THEN coords[Len(coords)] - coord
                                     ELSE coord - coords[Len(coords)])
       IN IF metres < 50
            THEN currentSession' = currentSession
            ELSE currentSession' =
                   [currentSession EXCEPT
                      !.coords = Append(coords, coord),
                      !.distance = currentSession.distance + metres]]_vars

\* C12 witness: an update exactly 50 m from the start was accepted, and then
\* one 25 m from it was discarded
C12_Witness ==
  /\ currentSession.coords = <<1, 3>>
  /\ currentSession.distance = 50
  /\ lastUpdate.coord = 2

\* C13: During a session the distance never decreases and the track only
\* grows by appending; its first point is always the start coordinate.
C13_TrackOnlyGrows ==
  [][/\ currentSession' # NoSession =>
          /\ Len(currentSession'.coords) >= 1
          /\ currentSession'.coords[1] = currentSession'.startCoord
     /\ SameSession =>
          /\ currentSession'.distance >= currentSession.distance
          /\ Len(currentSession'.coords) >= Len(currentSession.coords)
          /\ SubSeq(currentSession'.coords, 1, Len(currentSession.coords))
               = currentSession.coords]_vars

\* C13 witness: a session whose track was extended by an update and then by
\* the end coordinate of endSession
C13_Witness ==
  /\ Len(currentSession.coords) = 3
  /\ currentSession.distance > 0
  /\ BagCardinality(ending) = 1

\* the engine is Idle: no session, and no session handler under way
Idle ==
  /\ currentSession = NoSession
  /\ fixQueue = EmptyBag /\ ending = EmptyBag

\* C14: Once the engine is back in Idle, no location subscription opened by
\* any startSession is still active.
C14_IdleHasNoWatch == Idle => watches = {}

\* the records of the canonical store that were made from session sid
RecordsOf(sid) == {i \in 1..Len(logs) : logs[i].session = sid}

\* C15: Each session materializes exactly one LogRecord, also when
\* endSession is invoked again while an earlier endSession is still awaiting.
C15_OneRecordPerSession ==
  \A sid \in 1..MaxSessions : Cardinality(RecordsOf(sid)) <= 1

\* the addFuel handlers that await their fix
FuelAwaiting(queue) == {inv \in BagToSet(queue) : inv.op = "addFuel"}

\* C17: addFuel with an amount that is not a number or is <= 0 appends no
\* fuel event and leaves the session unchanged; with a valid amount, a cost
\* that is absent, not a number or negative is recorded as 0.
C17_AddFuelValidates ==
  [][/\ (lastReturn' # lastReturn /\ lastReturn'.op = "addFuel") =>
          /\ lastReturn'.input \in {"", "abc", "-5", "0"}
          /\ currentSession' = currentSession
          /\ fixQueue' = fixQueue
     /\ \A inv \in FuelAwaiting(fixQueue') : inv.amountStr = "10"
     /\ (SameSession /\ currentSession'.fuelLogs # currentSession.fuelLogs) =>
          \E inv \in FuelAwaiting(fixQueue) :
            /\ fixQueue' = fixQueue (-) SetToBag({inv})
            /\ Len(currentSession'.fuelLogs)
                 = Len(currentSession.fuelLogs) + 1
            /\ SubSeq(currentSession'.fuelLogs, 1,
                      Len(currentSession.fuelLogs)) = currentSession.fuelLogs
            /\ LET f == currentSession'.fuelLogs[Len(currentSession'.fuelLogs)]
               IN /\ f.amount = 10
                  /\ f.cost = IF inv.costStr = "3000" THEN 3000 ELSE 0]_vars

\* C17 witness: an amount that is not a number was refused, and the session
\* holds one fuel event with its cost and one whose cost was recorded as 0
C17_Witness ==
  /\ lastReturn = [op |-> "addFuel", input |-> "abc"]
  /\ Len(currentSession.fuelLogs) = 2
  /\ currentSession.fuelLogs[1].cost = 3000
  /\ currentSession.fuelLogs[2].cost = 0
  /\ fixQueue = EmptyBag

\* the fuel segments of a note
FuelSegments(note) == SelectSeq(note, LAMBDA seg : seg.kind = "fuel")

\* the records that endSession built in this step
BuiltRecords ==
  {e.record : e \in {e \in BagToSet(ending') :
                       CopiesIn(e, ending') > CopiesIn(e, ending)}}

\* C18: The LogRecord that endSession produces has fuelLitres equal to the
\* sum of the amounts and fuelCost equal to the sum of the costs of the fuel
\* events of the session, and its note has one segment per fuel event with
\* that event's amount and cost; the record is stored as built.
C18_FuelTotals ==
  [][/\ \A r \in BuiltRecords :
          LET fuelLogs == currentSession.fuelLogs
              segs == FuelSegments(r.note)
          IN /\ r.fuelLitres
                  = Sum([i \in 1..Len(fuelLogs) |-> fuelLogs[i].amount])
             /\ r.fuelCost
                  = Sum([i \in 1..Len(fuelLogs) |-> fuelLogs[i].cost])
             /\ Len(segs) = Len(fuelLogs)
             /\ \A i \in 1..Len(fuelLogs) :
                  /\ segs[i].amount = fuelLogs[i].amount
                  /\ segs[i].cost = fuelLogs[i].cost
     /\ Len(logs') > Len(logs) =>
          \E e \in BagToSet(ending) :
            /\ ending' = ending (-) SetToBag({e})
            /\ logs'[Len(logs')]
                 = [id |-> logsKey, log |-> logsKey] @@ e.record]_vars

\* C18 witness: a stored record of a session with two fuel stops of 10
\* litres, one of them with a cost of 3000
C18_Witness ==
  \E i \in 1..Len(logs) :
    /\ logs[i].fuelLitres = 20
    /\ logs[i].fuelCost = 3000
    /\ Len(FuelSegments(logs[i].note)) = 2

\* everything but the history variables
programVars ==
  <<started, online, appConfig, logs, pending, logsKey, pendingKey, pc, snap,
    idx, owner, parser, sheet, lastPass, now, currentSession, watches,
    nextWatchId, timers, fixQueue, ending>>

\* C16: Operations invoked while there is no session do nothing: an
\* endSession, toggleBreak, toggleRest or addFuel call returns at once and a
\* location update is dropped, with no session created, no record built and
\* neither store changed; none of them is left awaiting a fix.
C16_IdleCallsDoNothing ==
  [][currentSession = NoSession =>
       /\ (lastReturn' # lastReturn \/ lastUpdate' # lastUpdate) =>
            UNCHANGED programVars
       /\ lastReturn' # lastReturn => lastReturn'.input = "idle"
       /\ \A inv \in BagToSet(fixQueue') :
            inv.op # "startSession" =>
              CopiesIn(inv, fixQueue') <= CopiesIn(inv, fixQueue)
       /\ BagCardinality(ending') <= BagCardinality(ending)]_vars

\* C16 witness: after a session was ended and saved, endSession was invoked
\* with no session and a location update arrived from a watch still open
C16_Witness ==
  /\ Idle
  /\ Len(logs) = 1
  /\ lastReturn = [op |-> "endSession", input |-> "idle"]
  /\ lastUpdate.coord # None
  /\ watches # {}

\* the passes whose postLog request is in flight
InFlight == {p \in Passes : pc[p] = "postLog"}

\* C19: Posting is strictly sequential: at any moment at most one post is
\* in flight, also when a pass is started while an earlier one has not
\* finished.
C19_OnePostInFlight == Cardinality(InFlight) <= 1

\* the row of the sheet in which log l was first acknowledged
FirstRow(l) == CHOOSE i \in 1..Len(sheet) :
                 sheet[i] = l /\ \A j \in 1..(i - 1) : sheet[j] # l

\* C20: Records are posted in outbox insertion order: over any sequence of
\* passes, the order in which records are first acknowledged by the sink
\* agrees with the order in which they were added to the outbox.
C20_AckOrder ==
  \A a, b \in LogIds :
    (a < b /\ Posted(a) /\ Posted(b)) => FirstRow(a) < FirstRow(b)

\* one sequence is the beginning of another
IsPrefix(short, long) ==
  Len(short) <= Len(long) /\ SubSeq(long, 1, Len(short)) = short

\* C21: A synchronization pass is a no-op when the client is offline, when
\* no endpoint is configured, or when the outbox is empty: no pass starts
\* unless online with an endpoint, a skipped call leaves sheet and passes as
\* they are and removes nothing from the outbox, and a pass that reads an
\* empty outbox ends at once without a post or a clear.
C21_SyncNoOp ==
  [][/\ \A p \in Passes :
          /\ (pc[p] = "idle" /\ pc'[p] # "idle") =>
               (online' /\ appConfig'.SHEETS_WEBAPP_URL)
          /\ (pc[p] = "getPendingLogs" /\ pc'[p] # pc[p] /\ pending = << >>) =>
               /\ pc'[p] = "idle"
               /\ lastPass' = [outcome |-> "empty", calls |-> 0]
               /\ sheet' = sheet /\ pending' = pending /\ logs' = logs
     /\ (lastPass' # lastPass /\ lastPass'.outcome = "skipped") =>
          /\ ~(online' /\ appConfig'.SHEETS_WEBAPP_URL)
          /\ pc' = pc /\ sheet' = sheet
          /\ IsPrefix(pending, pending')
     /\ sheet' # sheet =>
          \E p \in Passes : pc[p] = "postLog" /\ Len(snap[p]) > 0]_vars

\* C21 witness: offline with a record queued, a call of the synchroniser was
\* skipped and nothing was posted
C21_Witness ==
  /\ ~online /\ appConfig.SHEETS_WEBAPP_URL
  /\ Len(pending) = 1
  /\ lastPass = [outcome |-> "skipped", calls |-> 0]
  /\ sheet = << >>
  /\ \A p \in Passes : pc[p] = "idle"

\* the fields of the wire format
WireFormat ==
  {"date", "departureName", "arrivalName", "departureTime", "arrivalTime",
   "drivingMinutes", "breakMinutes", "distanceKm", "fuelLitres", "fuelCost",
   "departureLat", "departureLng", "arrivalLat", "arrivalLng", "note"}

\* C22: The JSON body posted for a record has exactly the fields of the wire
\* format and no other field.
C22_WireFields ==
  \A p \in Passes :
    pc[p] = "postLog" => DOMAIN WireBody(snap[p][idx[p]]) = WireFormat

\* a post of some pass came back and the pass went on with its loop
PostReturned ==
  \E p \in Passes :
    /\ pc[p] = "postLog"
    /\ idx'[p] = idx[p] + 1 \/ pc'[p] = "clearPendingLogs"

\* a post of some pass came back and the pass gave up
PostThrew == \E p \in Passes : pc[p] = "postLog" /\ pc'[p] = "idle"
                                /\ lastPass'.outcome = "failed"

\* C23: A post succeeds only when the HTTP status is a success status and
\* the response body's ok is exactly true; it fails on a transport error,
\* on any other status and on any other ok, absent, false or non-boolean.
C23_OkExactlyTrue ==
  [][/\ PostReturned =>
          lastResponse'.fetch = "success" /\ lastResponse'.ok = "true"
     /\ PostThrew =>
          ~(lastResponse'.fetch = "success" /\ lastResponse'.ok = "true")]_vars

ToggleKinds == {"toggleBreak", "toggleRest"}

\* the toggle that resumed without a fix opened an interval that has no
\* coordinates, or closed the open one and gave it no end coordinates
ToggledWithoutFix(old, new) ==
  \/ /\ Len(new) = Len(old) + 1
     /\ SubSeq(new, 1, Len(old)) = old
     /\ new[Len(new)] = [start |-> now, end |-> None,
                         startCoord |-> None, endCoord |-> None]
  \/ /\ Len(new) = Len(old) /\ Len(old) > 0
     /\ old[Len(old)].end = None
     /\ new = [old EXCEPT ![Len(old)].end = now]

\* C24: A position that cannot be had never aborts an operation: toggleBreak
\* and toggleRest still open or close the interval, without coordinates;
\* addFuel still appends the fuel event, with zero coordinates; endSession
\* still builds the record, with zero arrival coordinates, and the record is
\* stored.
C24_NoFixNeverAborts ==
  [][/\ \A kind \in ToggleKinds :
          toggle_fix(kind, None) =>
            ToggledWithoutFix(Intervals(currentSession, kind),
                              Intervals(currentSession', kind))
     /\ addFuel_fix(None) =>
          /\ Len(currentSession'.fuelLogs) = Len(currentSession.fuelLogs) + 1
          /\ currentSession'.fuelLogs[Len(currentSession'.fuelLogs)].coord = 0
     /\ endSession_fix(None) =>
          \E inv \in BagToSet(ending') :
            /\ CopiesIn(inv, ending') = CopiesIn(inv, ending) + 1
            /\ inv.record.arrivalLat = 0 /\ inv.record.arrivalLng = 0
     /\ endSession_saved =>
          \E inv \in BagToSet(ending) :
            /\ Len(logs') = Len(logs) + 1
            /\ \A f \in DOMAIN inv.record :
                 logs'[Len(logs')][f] = inv.record[f]]_vars

\* a stored record with zero arrival coordinates whose note has a break
\* opened and closed without coordinates and a fuel stop at zero coordinates
C24_Witness ==
  \E i \in 1..Len(logs) :
    /\ logs[i].arrivalLat = 0
    /\ \E j \in 1..Len(logs[i].note) :
         LET seg == logs[i].note[j] IN
         /\ seg.kind = "break"
         /\ seg.end # None /\ seg.startCoord = None /\ seg.endCoord = None
    /\ \E j \in 1..Len(logs[i].note) :
         LET seg == logs[i].note[j] IN seg.kind = "fuel" /\ seg.coord = 0

RECURSIVE Elapsed(_, _)
\* the time that the first n intervals of a list have lasted by now
Elapsed(list, n) ==
  IF n = 0 THEN 0
  ELSE Elapsed(list, n - 1)
         + (IF list[n].end = None THEN now ELSE list[n].end) - list[n].start

\* m is ms / 60000 rounded down
IsFloorMinutes(m, ms) ==
  m * TicksPerMinute <= ms /\ ms < (m + 1) * TicksPerMinute

\* C25: At endSession the break and rest totals are the sums, over the
\* intervals, of end (the current time for an open interval) minus start;
\* the driving time is the time since the start less both totals, never
\* clamped; drivingMinutes and breakMinutes of the record are the driving
\* time and the break total in minutes, rounded down.
C25_RecordTimes ==
  [][\A rec \in BuiltRecords :
       LET breakMs == Elapsed(currentSession.breaks,
                              Len(currentSession.breaks))
           restMs == Elapsed(currentSession.rests, Len(currentSession.rests))
           drivingMs == (now - currentSession.startTime) - breakMs - restMs
       IN /\ IsFloorMinutes(rec.drivingMinutes, drivingMs)
          /\ IsFloorMinutes(rec.breakMinutes, breakMs)]_vars

\* a stored record of a session that ended with a break open, with a
\* negative driving time
C25_Witness ==
  \E i \in 1..Len(logs) :
    /\ logs[i].drivingMinutes < 0
    /\ logs[i].breakMinutes > 0
    /\ \E j \in 1..Len(logs[i].note) :
         logs[i].note[j].kind = "break" /\ logs[i].note[j].end = None

\* the segments of a kind in a note
SegmentsOf(note, kind) ==
  {note[j] : j \in {j \in 1..Len(note) : note[j].kind = kind}}

\* the intervals of two segments share some time, an open one lasting up to
\* the time at
Overlap(a, b, at) ==
  LET endA == IF a.end = None THEN at ELSE a.end
      endB == IF b.end = None THEN at ELSE b.end
  IN a.start < endB /\ b.start < endA

\* C26: The driving time of a session in which no break interval overlaps
\* a rest interval is not negative; it is negative only when a break and a
\* rest overlap.
C26_DrivingNotNegative ==
  \A i \in 1..Len(logs) :
    (\A b \in SegmentsOf(logs[i].note, "break"),
        r \in SegmentsOf(logs[i].note, "rest") :
        ~Overlap(b, r, logs[i].arrivalTime))
      => logs[i].drivingMinutes >= 0

\* a call of sendPendingIfOnline got past its guards: a pass begins
PassStarted == \E p \in Passes : pc[p] = "idle" /\ pc'[p] = "getPendingLogs"

\* C27: A synchronisation pass is triggered when the application starts, on
\* every transition from offline to online and on every manual request;
\* after the client comes back online with a non-empty outbox, a pass
\* starts with no action of the user.  (The pass runs where C21 lets it:
\* online, with the endpoint configured.)
C27_SyncTriggers ==
  [][/\ (~started /\ started' /\ online /\ appConfig'.SHEETS_WEBAPP_URL)
          => PassStarted
     /\ (~online /\ online' /\ appConfig.SHEETS_WEBAPP_URL)
          => PassStarted
     /\ (syncBtn_onclick /\ online /\ appConfig.SHEETS_WEBAPP_URL)
          => PassStarted]_vars

\* back online with records in the outbox, a pass of no handler's asking is
\* about to read and post them
C27_Witness ==
  /\ online /\ pending # << >> /\ parser.pc = "idle"
  /\ lastPass.outcome = "skipped"
  /\ \E p \in Passes : pc[p] = "getPendingLogs" /\ owner[p] = "none"
  /\ \A p \in Passes : pc[p] \in {"idle", "getPendingLogs"}

\* C28: Break and rest tracking are independent: toggleBreak never changes
\* the rests and toggleRest never changes the breaks, and a state with a
\* break and a rest open at once can be reached.
C28_BreakRestIndependent ==
  [][/\ (toggle_call("toggleBreak") \/ \E fix \in Fixes :
                                         toggle_fix("toggleBreak", fix))
          => currentSession'.rests = currentSession.rests
     /\ (toggle_call("toggleRest") \/ \E fix \in Fixes :
                                        toggle_fix("toggleRest", fix))
          => currentSession'.breaks = currentSession.breaks]_vars

\* a break and a rest are open at once, the rest opened by the toggle that
\* resumed last
C28_Witness ==
  /\ currentSession # NoSession /\ fixQueue = EmptyBag
  /\ LastIsOpen(currentSession.breaks) /\ LastIsOpen(currentSession.rests)
  /\ currentSession.breaks[1].start < currentSession.rests[1].start

\* the logs that this step deletes from the canonical store
DeletedLogs == StoreLogs(logs) \ StoreLogs(logs')

\* C29: Transport errors never corrupt or drop queued data: a failing post
\* leaves the outbox as it is, and once a pass has failed the outbox keeps,
\* until a pass clears it, exactly the records it had, in insertion order,
\* with the records appended since at the end, less only the records whose
\* log the user deleted.
C29_FailuresKeepOutbox ==
  [][/\ \A p \in Passes : FailingPost(p) => pending' = pending
     /\ (lastPass.outcome = "failed" /\ \A p \in Passes : ~ClearStep(p)) =>
          IsPrefix(SelectSeq(pending, LAMBDA e : e.log \notin DeletedLogs),
                   pending')]_vars

\* the endSession handlers that built their record in this step
BuiltNow ==
  {e \in BagToSet(ending') : CopiesIn(e, ending') > CopiesIn(e, ending)}

\* n segments of one kind
Run(kind, n) == [i \in 1..n |-> kind]

\* C30: The note of the record is its segments joined in this order: the
\* trimmed remark of the user if it is not empty, the summary of the rest
\* minutes only if they are more than 0, one segment per break, one per
\* rest, one per fuel event; so the number of segments is [remark not
\* empty] + [rest minutes > 0] + |breaks| + |rests| + |fuel events|.
C30_NoteSegments ==
  [][\A e \in BuiltNow :
       LET note == e.record.note
           remark == trim(e.userNote)
           restMinutes ==
             (Elapsed(currentSession.rests, Len(currentSession.rests)))
               \div TicksPerMinute
           u == IF remark # "" THEN 1 ELSE 0
           r == IF restMinutes > 0 THEN 1 ELSE 0
           nb == Len(currentSession.breaks)
           nr == Len(currentSession.rests)
           nf == Len(currentSession.fuelLogs)
       IN /\ Len(note) = u + r + nb + nr + nf
          /\ [j \in 1..Len(note) |-> note[j].kind]
               = Run("user", u) \o Run("restTotal", r) \o Run("break", nb)
                   \o Run("rest", nr) \o Run("fuel", nf)
          /\ u = 1 => note[1].text = remark
          /\ r = 1 => note[u + 1].minutes = restMinutes
          /\ \A i \in 1..nb :
               /\ note[u + r + i].idx = i
               /\ note[u + r + i].start = currentSession.breaks[i].start
          /\ \A i \in 1..nr :
               /\ note[u + r + nb + i].idx = i
               /\ note[u + r + nb + i].start = currentSession.rests[i].start
          /\ \A i \in 1..nf :
               /\ note[u + r + nb + nr + i].idx = i
               /\ note[u + r + nb + nr + i].time
                    = currentSession.fuelLogs[i].time]_vars

\* a stored record whose note has all five kinds of segment, the remark
\* trimmed
C30_Witness ==
  \E i \in 1..Len(logs) :
    /\ Len(logs[i].note) >= 5
    /\ logs[i].note[1] = [kind |-> "user", text |-> "memo"]
    /\ \A k \in {"restTotal", "break", "rest", "fuel"} :
         \E j \in 1..Len(logs[i].note) : logs[i].note[j].kind = k

\* C31: Once endSession has stored the record the engine is back to Idle
\* whatever comes of the synchronisation it triggers: the session whose
\* record is stored is not left active while a post is outstanding.
C31_IdleOncePersisted ==
  (currentSession # NoSession /\ RecordsOf(currentSession.watchId) # {})
    => \A p \in Passes : pc[p] # "postLog"

\* C32: startSession needs a starting coordinate: if none is obtained, no
\* session is created, no location subscription is opened and no refresh
\* timer is started, and an engine that was Idle stays Idle; on success the
\* session has startTime = now, the initial coordinate as its only track
\* point, distance 0 and no breaks, rests or fuel events.
C32_StartNeedsCoordinate ==
  [][/\ startSession_observed(None) =>
          /\ currentSession' = currentSession
          /\ watches' = watches /\ timers' = timers
          /\ (currentSession = NoSession /\ ending = EmptyBag
                /\ BagCardinality(fixQueue) = 1) => Idle'
     /\ \A fix \in Places :
          startSession_observed(fix) =>
            /\ currentSession'.startTime = now
            /\ currentSession'.coords = <<fix>>
            /\ currentSession'.distance = 0
            /\ currentSession'.breaks = << >>
            /\ currentSession'.rests = << >>
            /\ currentSession'.fuelLogs = << >>
            /\ currentSession'.watchId \in watches' \ watches
            /\ timers' = timers + 1]_vars

\* the first start of all has failed: the engine is Idle, nothing is
\* watched and no timer runs
C32_Witness ==
  /\ lastReturn = [op |-> "startSession", input |-> "no fix"]
  /\ Idle /\ watches = {} /\ timers = 0 /\ now > 0

\* C33: The canonical set of logs changes only by saveLog adding a record
\* at the end and by the deletion of one record: no step of a pass, however
\* the pass ends, adds, removes or changes a record, and a record once
\* stored stays as it was stored.
C33_CanonicalLogsFrame ==
  [][/\ \/ logs' = logs
        \/ /\ Len(logs') = Len(logs) + 1
           /\ SubSeq(logs', 1, Len(logs)) = logs
           /\ logs'[Len(logs')].id = logsKey /\ logsKey' = logsKey + 1
        \/ \E id \in StoreKeys(logs) :
             logs' = SelectSeq(logs, LAMBDA e : e.id # id)
     /\ \A p \in Passes : PassStep(p) => logs' = logs
     /\ \A i \in 1..Len(logs'), j \in 1..Len(logs) :
          logs'[i].id = logs[j].id => logs'[i] = logs[j]]_vars

\* a pass has cleared the outbox and a record has been deleted, and the
\* canonical store still holds a record
C33_Witness ==
  /\ lastPass.outcome = "cleared"
  /\ Len(logs) > 0 /\ Len(logs) < logsKey - 1
  /\ \A p \in Passes : pc[p] = "idle"

\* the addFuel handlers that resume in this step
FuelResumed ==
  {inv \in FuelAwaiting(fixQueue) :
     CopiesIn(inv, fixQueue') < CopiesIn(inv, fixQueue)}

\* C34: An addFuel that awaits its fix completes on the session it was
\* started in or fails outright: if that session has ended, or has ended
\* and another has started, the fuel event is not appended to another
\* session and no error goes unhandled (the handler does not find
\* currentSession null).
C34_FuelOnOwnSession ==
  [][\A inv \in FuelResumed :
       /\ currentSession # NoSession
       /\ currentSession'.fuelLogs # currentSession.fuelLogs
            => currentSession.watchId = inv.sid]_vars

\* the intervals of a list that have an end are in the new list as they were
ClosedKept(old, new) ==
  /\ Len(new) >= Len(old)
  /\ \A i \in 1..Len(old) : old[i].end # None => new[i] = old[i]

\* C35: Fuel events and closed intervals never change: the fuel events of a
\* session only grow at the end, and once a break or a rest has an end, no
\* later operation, overlapping toggles included, changes its start, its end
\* or its coordinates.
C35_ClosedIntervalsKept ==
  [][SameSession =>
       /\ IsPrefix(currentSession.fuelLogs, currentSession'.fuelLogs)
       /\ ClosedKept(currentSession.breaks, currentSession'.breaks)
       /\ ClosedKept(currentSession.rests, currentSession'.rests)]_vars

\* C36: Whenever a session is active its location subscription is live: in
\* no reachable state is there a session whose watch has been cleared, also
\* not while endSession awaits.
C36_ActiveIsWatched ==
  currentSession # NoSession => currentSession.watchId \in watches

\* C37: At most one refresh timer runs at any time and none runs while the
\* engine is Idle: the timer that startSession starts is stopped when its
\* session ends, over any number of sessions.
C37_OneTimer ==
  /\ timers <= 1
  /\ Idle => timers = 0

\* the distances between the consecutive points of a track
Legs(coords) ==
  [i \in 1..(Len(coords) - 1) |-> haversineDistance(coords[i], coords[i + 1])]

\* C38: In every state of an active session the accumulated distance is the
\* sum of the distances between consecutive track points, and consecutive
\* track points are at least 50 m apart; the arrival coordinate that
\* endSession records is accounted for in the distance.
C38_DistanceIsTrackLength ==
  currentSession # NoSession =>
    /\ currentSession.distance = Sum(Legs(currentSession.coords))
    /\ \A i \in 1..Len(Legs(currentSession.coords)) :
         Legs(currentSession.coords)[i] >= JitterThresholdMetres

\* C39: If the natural-language parser fails, the save action adds no
\* record to the canonical store or the outbox and triggers no
\* synchronisation; if it succeeds, exactly one record is added, its absent
\* fields empty or zero, and it is put in the outbox exactly when the client
\* is offline.
C39_ParserSave ==
  [][/\ (parser.pc = "parseNaturalLog" /\ parser'.pc = "idle") =>
          /\ logs' = logs /\ pending' = pending
          /\ pc' = pc /\ lastPass' = lastPass
     /\ (parser.pc = "parseNaturalLog" /\ parser'.pc = "saveLog") =>
          /\ logs' = logs /\ pending' = pending
          /\ parser'.pending = ~online
     /\ (parser.pc = "saveLog" /\ parser'.pc # "saveLog") =>
          LET rec == logs'[Len(logs')] IN
          /\ Len(logs') = Len(logs) + 1
          /\ SubSeq(logs', 1, Len(logs)) = logs
          /\ DOMAIN rec = DOMAIN ParsedRecord \cup {"id", "log"}
          /\ \A f \in DOMAIN ParsedRecord :
               rec[f] = IF f \in DOMAIN parser.parsed
                          THEN parser.parsed[f] ELSE ParsedRecord[f]
          /\ IF parser.pending
               THEN /\ Len(pending') = Len(pending) + 1
                    /\ SubSeq(pending', 1, Len(pending)) = pending
                    /\ pending'[Len(pending')].log = rec.log
               ELSE pending' = pending]_vars

\* a record parsed from a text that names the places only was saved
\* offline: it is queued, its other fields zero or empty
C39_Witness ==
  \E i \in 1..Len(pending) :
    /\ pending[i].departureName = "Sapporo"
    /\ pending[i].arrivalName = "Obihiro"
    /\ pending[i].distanceKm = 0 /\ pending[i].departureTime = ""
    /\ pending[i].log \in StoreLogs(logs)

\* ------------------------------------------- great-circle distance (geo.ts)
\* A number keeps Precision units to one: every product is rounded to the
\* nearest number that can be kept, ties to even, as floating-point
\* arithmetic rounds each operation.
Precision == 1000

round(n) ==
  LET q == n \div Precision
      r == n % Precision
  IN IF 2 * r > Precision \/ (2 * r = Precision /\ q % 2 = 1) THEN q + 1 ELSE q

\* x * y of two numbers that are not negative
times(x, y) == round(x * y)

\* the coordinates measured, in degrees
Latitudes == {0, 20, 40, 60}
Longitudes == {0, 40, 80, 120}
Coordinates == [lat : Latitudes, lng : Longitudes]

EARTH_RADIUS_KM == 6371

\* Math.sin and Math.cos of an angle, which toRadians converted from degrees,
\* for the angles the coordinates yield
sin(deg) ==
  LET m == IF deg < 0 THEN -deg ELSE deg
      v == CASE m = 0 -> 0 [] m = 10 -> 174 [] m = 20 -> 342
             [] m = 30 -> 500 [] m = 40 -> 643 [] m = 60 -> 866
  IN IF deg < 0 THEN -v ELSE v

cos(deg) ==
  CASE deg = 0 -> 1000 [] deg = 20 -> 940 [] deg = 40 -> 766 [] deg = 60 -> 500

\* x / 2 of an even number of degrees
half(x) == IF x < 0 THEN -((-x) \div 2) ELSE x \div 2

\* Math.sin(dLat / 2) ** 2 + Math.sin(dLon / 2) ** 2 * Math.cos(lat1) *
\* Math.cos(lat2): the products are taken from left to right
haversine(a, b) ==
  LET dLat == b.lat - a.lat
      dLon == b.lng - a.lng
      sLat == sin(half(dLat))
      sLon == sin(half(dLon))
  IN round(sLat * sLat)
       + times(times(round(sLon * sLon), cos(a.lat)), cos(b.lat))

\* 2 * Math.atan2(Math.sqrt(h), Math.sqrt(1 - h)), for the values of h the
\* coordinates yield
arc(h) ==
  CASE h = 0 -> 0 [] h = 29 -> 342 [] h = 30 -> 348 [] h = 69 -> 532
    [] h = 74 -> 551 [] h = 75 -> 555 [] h = 103 -> 653 [] h = 114 -> 689
    [] h = 115 -> 692 [] h = 117 -> 698 [] h = 140 -> 767 [] h = 172 -> 855
    [] h = 188 -> 897 [] h = 207 -> 945 [] h = 242 -> 1029 [] h = 250 -> 1047
    [] h = 308 -> 1177 [] h = 311 -> 1183 [] h = 317 -> 1196
    [] h = 327 -> 1217 [] h = 365 -> 1297 [] h = 413 -> 1396
    [] h = 418 -> 1406 [] h = 433 -> 1436 [] h = 440 -> 1451
    [] h = 456 -> 1483 [] h = 469 -> 1509 [] h = 570 -> 1711
    [] h = 625 -> 1823 [] h = 663 -> 1903 [] h = 691 -> 1963
    [] h = 735 -> 2060 [] h = 750 -> 2094

\* haversineDistance(a, b) of two coordinates, in kilometres kept to whole
\* numbers
haversineDistance_km(a, b) == round(EARTH_RADIUS_KM * arc(haversine(a, b)))

\* the program before anything ran, two coordinates at hand to be measured
GeoInit ==
  /\ started = FALSE
  /\ online \in BOOLEAN
  /\ appConfig = [SHEETS_WEBAPP_URL |-> FALSE, OPENAI_API_KEY |-> FALSE]
  /\ logs = << >> /\ pending = << >>
  /\ logsKey = 1 /\ pendingKey = 1
  /\ pc = [p \in Passes |-> "idle"]
  /\ snap = [p \in Passes |-> << >>]
  /\ idx = [p \in Passes |-> 0]
  /\ owner = [p \in Passes |-> "none"]
  /\ parser = [pc |-> "idle", pending |-> FALSE, parsed |-> << >>]
  /\ sheet = << >>
  /\ lastPass = [outcome |-> "none", calls |-> 0]
  /\ now = 0
  /\ currentSession = NoSession
  /\ watches = {}
  /\ nextWatchId = 1
  /\ timers = 0
  /\ fixQueue = EmptyBag
  /\ ending = EmptyBag
  /\ lastUpdate = [coord |-> None, flip |-> FALSE]
  /\ lastReturn \in [op : {"call"}, input : Coordinates \X Coordinates]
  /\ lastResponse = NoResponse

\* haversineDistance(a, b) returns; lastReturn keeps the arguments and the
\* value returned
haversineDistance_returns ==
  /\ lastReturn.op = "call"
  /\ lastReturn' = [op |-> "haversineDistance",
                    input |-> lastReturn.input,
                    km |-> haversineDistance_km(lastReturn.input[1],
                                                lastReturn.input[2])]
  /\ UNCHANGED <<programVars, now, currentSession, watches, nextWatchId,
                 timers, fixQueue, ending, lastUpdate, lastResponse>>

GeoNext == haversineDistance_returns

GeoSpec == GeoInit /\ [][GeoNext]_vars

C40_SelfDistanceZero ==
  (lastReturn.op = "haversineDistance"
     /\ lastReturn.input[1] = lastReturn.input[2]) => lastReturn.km = 0

====
